---- MODULE Spec2Model ----
(***************************************************************************)
(* Model of zynlibs/zynaudio8x/spdif_duplex.c, the ALSA SoC SPDIF DID      *)
(* (Digital Interface Duplex) stub driver.                                 *)
(*                                                                         *)
(* State: the file-scope object duplex_stub_dai (static, NOT const), and   *)
(* the history of probe calls (one per device attachment) with what each   *)
(* one read, wrote, submitted to devm_snd_soc_register_component and       *)
(* returned.  The const tables (widgets, routes, component driver) are     *)
(* definitions.                                                            *)
(***************************************************************************)
EXTENDS Integers, Sequences, FiniteSets

VARIABLES duplex_stub_dai, log

vars == <<duplex_stub_dai, log>>

----------------------------------------------------------------------------
(* Bounds of the model *)

\* number of device attachments (probe calls) followed in Spec
MaxAttach == 2

\* SpecWide draws a property value from 0..MaxVal (every value up to and
\* past the validity boundary 385)
MaxVal == 386

----------------------------------------------------------------------------
(* Static tables *)

\* #define STUB_RATES
STUB_RATES == {"SNDRV_PCM_RATE_8000_96000"}

\* #define STUB_FORMATS
STUB_FORMATS == {"SNDRV_PCM_FMTBIT_S16_LE", "SNDRV_PCM_FMTBIT_S20_3LE",
                 "SNDRV_PCM_FMTBIT_S24_LE", "SNDRV_PCM_FMTBIT_S32_LE",
                 "SNDRV_PCM_FMTBIT_IEC958_SUBFRAME_LE"}

\* SND_SOC_DAPM_INPUT("spdif-in"), SND_SOC_DAPM_OUTPUT("spdif-out")
duplex_widgets == << [id |-> "snd_soc_dapm_input",  name |-> "spdif-in"],
                     [id |-> "snd_soc_dapm_output", name |-> "spdif-out"] >>

\* struct snd_soc_dapm_route is { sink, control, source }: the positional
\* initialisers { "Capture", NULL, "spdif-in" } and
\* { "Playback", NULL, "spdif-out" } fill the fields in that order.
duplex_routes == << [sink |-> "Capture",  control |-> "NULL", source |-> "spdif-in"],
                    [sink |-> "Playback", control |-> "NULL", source |-> "spdif-out"] >>

\* static const struct snd_soc_component_driver soc_codec_spdif_duplex
soc_codec_spdif_duplex ==
    [ dapm_widgets     |-> duplex_widgets,
      num_dapm_widgets |-> Len(duplex_widgets),
      dapm_routes      |-> duplex_routes,
      num_dapm_routes  |-> Len(duplex_routes),
      idle_bias_on     |-> 1,
      use_pmdown_time  |-> 1,
      endianness       |-> 1 ]

\* the initialiser of static struct snd_soc_dai_driver duplex_stub_dai
duplex_stub_dai_init ==
    [ name     |-> "did-hifi",
      capture  |-> [ stream_name  |-> "Capture",
                     channels_min |-> 1,
                     channels_max |-> 384,
                     rates        |-> STUB_RATES,
                     formats      |-> STUB_FORMATS ],
      playback |-> [ stream_name  |-> "Playback",
                     channels_min |-> 1,
                     channels_max |-> 384,
                     rates        |-> STUB_RATES,
                     formats      |-> STUB_FORMATS ] ]

----------------------------------------------------------------------------
(* Device-tree nodes: a node is a function from the names of the          *)
(* properties it carries to their values, each a u32 (no arithmetic is    *)
(* done on them, so the values drawn below never leave the u32 range).    *)

PropNames == {"capture-channels", "playback-channels"}

\* property values followed in Spec: 0, a valid value, the upper boundary,
\* an odd value, a value >= 385
RepVals == {0, 8, 384, 7, 500}

NodesOver(cvals, pvals) ==
    { <<>> }
    \cup { [n \in {"capture-channels"} |-> c] : c \in cvals }
    \cup { [n \in {"playback-channels"} |-> p] : p \in pvals }
    \cup { [n \in PropNames |-> IF n = "capture-channels" THEN c ELSE p]
             : c \in cvals, p \in pvals }

RepNodes == NodesOver(RepVals, RepVals)

WideNodes == NodesOver(0 .. MaxVal, RepVals) \cup NodesOver(RepVals, 0 .. MaxVal)

\* results of devm_snd_soc_register_component: success, -ENOMEM
RegResults == {0, -12}

----------------------------------------------------------------------------
(* spdif_duplex_probe *)

\* of_property_read_u32(np, name, &val): stores the property's value in val
\* when the node carries it, leaves val untouched otherwise
of_property_read_u32(np, name, val) ==
    IF name \in DOMAIN np THEN np[name] ELSE val

\* if (val < 385 && (val % 2) == 0)
ChannelsOkBelow384(val) == val < 384 /\ (val % 2) = 0

ChannelsOk(val) == val < 385 /\ (val % 2) = 0

\* <stream>.channels_max = val
SetChannelsMaxAndMin(stream, val) ==
    [stream EXCEPT !.channels_max = val, !.channels_min = val]

SetChannelsMax(stream, val) == [stream EXCEPT !.channels_max = val]

\* val = 2;  (between the two reads)
KeepVal(val) == val

ResetVal(val) == 2

\* the arguments of the registration call: &soc_codec_spdif_duplex,
\* &duplex_stub_dai (a pointer to the file-scope object), 1; with the
\* contents of the pointed-to descriptor at the time of the call
RegisterCall(dev, dai) ==
    [ dev              |-> dev,
      component_driver |-> soc_codec_spdif_duplex,
      dai_drv          |-> "&duplex_stub_dai",
      num_dai          |-> 1,
      dai              |-> dai ]

\* return devm_snd_soc_register_component(...): one call, unconditionally
ProbeCallsRetry(dev, dai, ret) ==
    IF ret = 0 THEN << RegisterCall(dev, dai) >>
               ELSE << RegisterCall(dev, dai), RegisterCall(dev, dai) >>

ProbeCalls(dev, dai, ret) == << RegisterCall(dev, dai) >>

\* the value probe returns: that of the registration call
ProbeResultEinval(ret) == IF ret = 0 THEN 0 ELSE -22

ProbeResult(ret) == ret

\* Lines 63-70 of spdif_duplex_probe, run on the descriptor dai with the
\* device-tree node np: the descriptor they leave, and the number of
\* stores to it.
ProbeConfigure(dai, np) ==
    LET val0 == 2
        val1 == of_property_read_u32(np, "capture-channels", val0)
        ok1  == ChannelsOk(val1)
        dai1 == IF ok1
                  THEN [dai EXCEPT !.capture = SetChannelsMax(@, val1)]
                  ELSE dai
        val2 == ResetVal(val1)
        val3 == of_property_read_u32(np, "playback-channels", val2)
        ok2  == ChannelsOk(val3)
        dai2 == IF ok2
                  THEN [dai1 EXCEPT !.playback = SetChannelsMax(@, val3)]
                  ELSE dai1
    IN  [ dai    |-> dai2,
          writes |-> (IF ok1 THEN 1 ELSE 0) + (IF ok2 THEN 1 ELSE 0) ]

\* One device attachment: the whole of spdif_duplex_probe for the device
\* numbered dev with device-tree node np, the external registration call
\* answering ret.  The stores go to the file-scope duplex_stub_dai.
spdif_duplex_probe(dev, np, ret) ==
    LET cfg == ProbeConfigure(duplex_stub_dai, np)
    IN  /\ duplex_stub_dai' = cfg.dai
        /\ log' = Append(log,
                    [ dev    |-> dev,
                      np     |-> np,
                      before |-> duplex_stub_dai,
                      writes |-> cfg.writes,
                      calls  |-> ProbeCalls(dev, cfg.dai, ret),
                      ret    |-> ret,
                      result |-> ProbeResult(ret) ])

----------------------------------------------------------------------------
(* Specifications *)

Init ==
    /\ duplex_stub_dai = duplex_stub_dai_init
    /\ log = <<>>

\* module_platform_driver: the platform bus calls .probe once for each
\* matching device; attachment k is of device k
Probe ==
    /\ Len(log) < MaxAttach
    /\ \E np \in RepNodes, ret \in RegResults :
          spdif_duplex_probe(Len(log) + 1, np, ret)

Next == Probe

Spec == Init /\ [][Next]_vars

\* nodes of the attachment that may precede the wide one in SpecWide
PriorNodes == { <<>>,
                [n \in PropNames |-> 8] }

\* an attachment with one of its two properties ranging over all of
\* 0..MaxVal: the first one after module load, or the one that follows an
\* attachment with a node of PriorNodes
ProbeWide ==
    /\ \/ log = <<>>
       \/ Len(log) = 1 /\ log[1].np \in PriorNodes
    /\ \E np \in WideNodes, ret \in RegResults :
          spdif_duplex_probe(Len(log) + 1, np, ret)

NextWide == ProbeWide

SpecWide == Init /\ [][NextWide]_vars

----------------------------------------------------------------------------
(* Reading the history *)

Attachments == DOMAIN log

\* the descriptor attachment k submitted for registration
Submitted(k) == log[k].calls[1].dai

Has(k, name) == name \in DOMAIN log[k].np

\* the object a registered dai_drv pointer designates: the framework is
\* handed the address of the file-scope object, not a copy
Deref(ptr) == duplex_stub_dai

Stream(dai, name) ==
    IF name = "capture-channels" THEN dai.capture ELSE dai.playback

----------------------------------------------------------------------------
(* Claims *)

\* C1: for either direction, when the direction's field is absent, or
\* present with an odd value or a value >= 385, the channel-count maximum
\* of that direction in the submitted descriptor is 2, at the first and at
\* every later attachment.
C1_InvalidOrAbsentYieldsTwo ==
    \A k \in Attachments : \A name \in PropNames :
        ( \/ ~Has(k, name)
          \/ (Has(k, name) /\ (log[k].np[name] % 2 = 1 \/ log[k].np[name] >= 385)) )
        => Stream(Submitted(k), name).channels_max = 2

\* C2: for either direction, when the direction's field is present with an
\* even value v < 385, the channel-count maximum of that direction in the
\* submitted descriptor is v (every such v in 0..384).
C2_ValidValueIsSubmitted ==
    \A k \in Attachments : \A name \in PropNames :
        (Has(k, name) /\ log[k].np[name] < 385 /\ log[k].np[name] % 2 = 0)
        => Stream(Submitted(k), name).channels_max = log[k].np[name]

\* C2 witness: after an attachment that left both maxima at 8, a node with
\* both fields at the upper boundary 384 is attached and 384 is submitted
\* for both directions.
C2_Witness ==
    \E k \in Attachments :
        /\ log[k].before.capture.channels_max = 8
        /\ log[k].before.playback.channels_max = 8
        /\ log[k].np = [n \in PropNames |-> 384]
        /\ Submitted(k).capture.channels_max = 384
        /\ Submitted(k).playback.channels_max = 384

\* C3: the maxima an attachment submits are a function of its own two
\* fields only: they are those the same node yields when no attachment
\* came before it.
C3_OwnFieldsOnly ==
    \A k \in Attachments :
        LET fresh == ProbeConfigure(duplex_stub_dai_init, log[k].np).dai
        IN  /\ Submitted(k).capture.channels_max = fresh.capture.channels_max
            /\ Submitted(k).playback.channels_max = fresh.playback.channels_max

\* C4: the maxima of a descriptor the framework holds (registration
\* succeeded) stay those it had when it was submitted, whatever later
\* attachments do; and no attachment stores to the descriptor more than
\* twice.
C4_RegisteredDescriptorIsFrozen ==
    \A k \in Attachments :
        /\ log[k].writes <= 2
        /\ log[k].result = 0 =>
             LET held == Deref(log[k].calls[1].dai_drv)
             IN  /\ held.capture.channels_max = Submitted(k).capture.channels_max
                 /\ held.playback.channels_max = Submitted(k).playback.channels_max

\* C5: within one attachment the two directions are independent: two
\* attachments that agree on a direction's field (value or absence) and on
\* that direction's maximum beforehand submit the same maximum for it,
\* whatever the other field holds; and capture-channels = 8 with no
\* playback-channels field yields capture max 8 and playback max 2.
C5_DirectionsIndependent ==
    /\ \A i, j \in Attachments : \A name \in PropNames :
          ( /\ Has(i, name) = Has(j, name)
            /\ (Has(i, name) => log[i].np[name] = log[j].np[name])
            /\ Stream(log[i].before, name).channels_max
                 = Stream(log[j].before, name).channels_max )
          => Stream(Submitted(i), name).channels_max
               = Stream(Submitted(j), name).channels_max
    /\ \A k \in Attachments :
          (Has(k, "capture-channels") /\ ~Has(k, "playback-channels")
             /\ log[k].np["capture-channels"] = 8)
          => /\ Submitted(k).capture.channels_max = 8
             /\ Submitted(k).playback.channels_max = 2

\* C5 witness: the first attachment has capture-channels = 8 and no
\* playback-channels and submits (8, 2); a second one with another capture
\* field agrees with it on the playback side and submits playback max 2.
C5_Witness ==
    /\ Len(log) = 2
    /\ log[1].np = [n \in {"capture-channels"} |-> 8]
    /\ Submitted(1).capture.channels_max = 8
    /\ Submitted(1).playback.channels_max = 2
    /\ log[2].np = [n \in PropNames |-> IF n = "capture-channels" THEN 7 ELSE 500]
    /\ Submitted(2).playback.channels_max = 2

\* C6: every attachment makes exactly one registration call, with exactly
\* two routing declarations and one endpoint descriptor named "did-hifi",
\* whatever the two fields hold.
C6_RegisteredExactlyOnce ==
    \A k \in Attachments :
        /\ Len(log[k].calls) = 1
        /\ log[k].calls[1].dev = log[k].dev
        /\ log[k].calls[1].component_driver.num_dapm_routes = 2
        /\ Len(log[k].calls[1].component_driver.dapm_routes) = 2
        /\ log[k].calls[1].num_dai = 1
        /\ log[k].calls[1].dai.name = "did-hifi"

\* C6 witness: an attachment with no field, one with two invalid fields
\* whose registration failed: each made its one call.
C6_Witness ==
    /\ Len(log) = 2
    /\ log[1].np = <<>>
    /\ log[2].np = [n \in PropNames |-> IF n = "capture-channels" THEN 7 ELSE 500]
    /\ log[2].ret # 0
    /\ Len(log[1].calls) = 1
    /\ Len(log[2].calls) = 1

\* C7: the result of an attachment is the result of its registration call,
\* unchanged; a failed call is not retried and nothing is done after it (the
\* descriptor is left as it was submitted).
C7_ResultIsRegistrationResult ==
    /\ \A k \in Attachments :
          /\ log[k].result = log[k].ret
          /\ log[k].ret # 0 => Len(log[k].calls) = 1
    /\ log # <<>> => duplex_stub_dai = Submitted(Len(log))

\* C7 witness: a failed registration (-ENOMEM) reported as such, and a
\* successful one reported as 0.
C7_Witness ==
    /\ Len(log) = 2
    /\ log[1].ret = -12 /\ log[1].result = -12
    /\ log[2].ret = 0 /\ log[2].result = 0

\* C8: the "Capture" endpoint is the sink fed by "spdif-in", and
\* "spdif-out" is the sink fed by the "Playback" endpoint; every attachment
\* submits these declarations.
C8_RouteDirections ==
    /\ duplex_routes[1].sink = "Capture"
    /\ duplex_routes[1].source = "spdif-in"
    /\ duplex_routes[2].sink = "spdif-out"
    /\ duplex_routes[2].source = "Playback"
    /\ \A k \in Attachments :
          log[k].calls[1].component_driver.dapm_routes = duplex_routes

\* C9: the channel-count minimum is 1 for capture and for playback in every
\* state, in the descriptor and in everything submitted.
C9_MinimaAreOne ==
    /\ duplex_stub_dai.capture.channels_min = 1
    /\ duplex_stub_dai.playback.channels_min = 1
    /\ \A k \in Attachments :
          /\ Submitted(k).capture.channels_min = 1
          /\ Submitted(k).playback.channels_min = 1

\* C9 witness: an attachment stored both maxima (to 8 and to 0) and one
\* stored none; the minima are 1.
C9_Witness ==
    /\ Len(log) = 2
    /\ log[1].writes = 2
    /\ log[1].np = [n \in PropNames |-> IF n = "capture-channels" THEN 8 ELSE 0]
    /\ log[2].writes = 0
    /\ Submitted(2).capture.channels_min = 1
    /\ Submitted(2).playback.channels_min = 1

\* C10: every submitted descriptor is well-formed: for both directions the
\* channel-count maximum is at least the channel-count minimum.
C10_MaxAtLeastMin ==
    \A k \in Attachments : \A name \in PropNames :
        Stream(Submitted(k), name).channels_max
          >= Stream(Submitted(k), name).channels_min

====
